---- MODULE Spec2Model ----
(***************************************************************************)
(* A model of ErrorHandler (src/error.handler.ts): the server-error mapper *)
(* (organizeServerErrors), the debounced local-validation scanner          *)
(* (handleErrors / findErrors), the message formatter (setErrorMessage)    *)
(* and invalidFormHasSubmit, over Angular form trees.                      *)
(*                                                                         *)
(* Representation.                                                         *)
(*  - A form tree is a function from control paths (sequences of name      *)
(*    segments, <<>> being the root FormGroup) to controls.  A row of a    *)
(*    FormArray is the child named by its index ("0", "1", ...).           *)
(*  - `errors` of a control is Null (the JS null) or <<S>>, an error       *)
(*    object whose entries are S, a set of [kind, params].  <<{}>> is the  *)
(*    empty object {}, which is not null.                                  *)
(*  - A message (a JS string) is the sequence of the pieces a template     *)
(*    literal concatenates; '' is <<>>.  Albanian diacritics of the source *)
(*    strings are written in ASCII.                                        *)
(*  - Interaction flags are kept on FormControls only: ErrorHandler reads  *)
(*    touched/dirty of FormControl children and of row fields, never of a  *)
(*    FormGroup or FormArray.                                              *)
(***************************************************************************)
EXTENDS Naturals, Sequences, FiniteSets, TLC

VARIABLES
    tree,         \* tree[f]: the controls of form f (state of the Angular form)
    acc,          \* acc[a]: the caller-owned error object a
    form,         \* this.form
    errorObject,  \* this.errorObject
    serverError,  \* this.serverError
    message,      \* this.message
    sub,          \* sub[f]: the valueChanges subscription made by handleErrors(f, _)
    outcome,      \* how the last organizeServerErrors call ended
    lastScan,     \* the scans that ran since the scanned tree last changed
    call          \* the operation invoked last and its form (recorded in SessionSpec)

vars == <<tree, acc, form, errorObject, serverError, message, sub, outcome, lastScan, call>>

----------------------------------------------------------------------------
(* Bounds of the model. *)

MaxRows == 2      \* rows of the FormArray `items`
MaxMsgs == 2      \* messages in one sequence value of a server payload
MaxKeys == 2      \* top-level keys of a server payload
MaxInner == 1     \* inner keys of one nested mapping of a server payload
MaxParam == 1     \* bound / actual parameters of length and range failures
RescanCap == 2    \* lastScan.count saturates here

Forms == {"A", "B"}
Accs == {"accA", "accB"}
Undefined == "undefined"
Msgs == {"m1", "m2"}

----------------------------------------------------------------------------
(* Values. *)

Null == <<>>
Obj(S) == <<S>>
Entries(e) == e[1]

Failure(kind, params) == [kind |-> kind, params |-> params]
Required == Failure("required", <<>>)
Email == Failure("email", <<>>)
Pattern == Failure("pattern", <<>>)
MinLength == Failure("minlength", <<>>)
MaxLengthErr(requiredLength, actualLength) == Failure("maxlength", <<requiredLength, actualLength>>)
MinErr(min, actual) == Failure("min", <<min, actual>>)
MaxErr(max, actual) == Failure("max", <<max, actual>>)
ServerErr(m) == Failure("serverError", m)

Has(S, kind) == \E x \in S : x.kind = kind
Param(S, kind) == (CHOOSE x \in S : x.kind = kind).params

Digit == <<"0", "1", "2", "3", "4", "5", "6", "7", "8", "9">>

RECURSIVE Str(_)
Str(n) == IF n < 10 THEN <<Digit[n + 1]>> ELSE Str(n \div 10) \o <<Digit[(n % 10) + 1]>>

UndefinedMessage == <<"undefined">>

----------------------------------------------------------------------------
(* setErrorMessage: the message of an error object, by the order of its     *)
(* if / else-if chain.                                                      *)

setErrorMessagePatternFirst(S) ==
    IF Has(S, "pattern") THEN <<"Vlera e dhene nuk eshte e sakte">>
    ELSE IF Has(S, "maxlength")
    THEN <<"Gjatesia maksimale e lejuar ">> \o Str(Param(S, "maxlength")[2])
             \o <<"/">> \o Str(Param(S, "maxlength")[1])
    ELSE IF Has(S, "email") THEN <<"Email nuk eshte i sakte">>
    ELSE IF Has(S, "required") THEN <<"Fushe e detyrueshme">>
    ELSE IF Has(S, "min")
    THEN <<"Vlera minimale eshte ">> \o Str(Param(S, "min")[1])
             \o <<", vlera aktuale ">> \o Str(Param(S, "min")[2])
    ELSE IF Has(S, "max")
    THEN <<"Vlera maksimale eshte ">> \o Str(Param(S, "max")[1])
             \o <<", vlera aktuale ">> \o Str(Param(S, "max")[2])
    ELSE IF Has(S, "serverError") THEN Param(S, "serverError")
    ELSE <<>>

(* A formatter whose minimum-value message names the bound only. *)
setErrorMessageBoundOnly(S) ==
    IF Has(S, "maxlength")
    THEN <<"Gjatesia maksimale e lejuar ">> \o Str(Param(S, "maxlength")[2])
             \o <<"/">> \o Str(Param(S, "maxlength")[1])
    ELSE IF Has(S, "email") THEN <<"Email nuk eshte i sakte">>
    ELSE IF Has(S, "required") THEN <<"Fushe e detyrueshme">>
    ELSE IF Has(S, "min")
    THEN <<"Vlera minimale eshte ">> \o Str(Param(S, "min")[1])
    ELSE IF Has(S, "max")
    THEN <<"Vlera maksimale eshte ">> \o Str(Param(S, "max")[1])
             \o <<", vlera aktuale ">> \o Str(Param(S, "max")[2])
    ELSE IF Has(S, "pattern") THEN <<"Vlera e dhene nuk eshte e sakte">>
    ELSE IF Has(S, "serverError") THEN Param(S, "serverError")
    ELSE <<>>

setErrorMessage(S) ==
    IF Has(S, "maxlength")
    THEN <<"Gjatesia maksimale e lejuar ">> \o Str(Param(S, "maxlength")[2])
             \o <<"/">> \o Str(Param(S, "maxlength")[1])
    ELSE IF Has(S, "email") THEN <<"Email nuk eshte i sakte">>
    ELSE IF Has(S, "required") THEN <<"Fushe e detyrueshme">>
    ELSE IF Has(S, "min")
    THEN <<"Vlera minimale eshte ">> \o Str(Param(S, "min")[1])
             \o <<", vlera aktuale ">> \o Str(Param(S, "min")[2])
    ELSE IF Has(S, "max")
    THEN <<"Vlera maksimale eshte ">> \o Str(Param(S, "max")[1])
             \o <<", vlera aktuale ">> \o Str(Param(S, "max")[2])
    ELSE IF Has(S, "pattern") THEN <<"Vlera e dhene nuk eshte e sakte">>
    ELSE IF Has(S, "serverError") THEN Param(S, "serverError")
    ELSE <<>>

----------------------------------------------------------------------------
(* Form trees. *)

Control(e, t, d) == [kind |-> "control", errors |-> e, touched |-> t, dirty |-> d]
Group(e) == [kind |-> "group", errors |-> e]
Array(e) == [kind |-> "array", errors |-> e]

NoControl == <<"(null)">>

IsPrefix(p, q) == Len(p) <= Len(q) /\ SubSeq(q, 1, Len(p)) = p
ChildPaths(t, p) == {q \in DOMAIN t : Len(q) = Len(p) + 1 /\ IsPrefix(p, q)}
Leaves(t) == {p \in DOMAIN t : t[p].kind = "control"}

(* Object.keys(controls): the children of a group in declaration order. *)
NameOrder == <<"email", "address", "items", "city", "qty", "sku">>
ControlNames(t, p) == SelectSeq(NameOrder, LAMBDA n : (p \o <<n>>) \in DOMAIN t)

(* formArray.controls: the rows in index order; the property name of index *)
(* i is its decimal numeral (one digit within the bounds of the model).    *)
RowCount(t, p) == Cardinality(ChildPaths(t, p))
IndexName(i) == Digit[i + 1]
RowPath(p, i) == p \o <<IndexName(i - 1)>>

(* AbstractControl.status of an enabled control without async validators:  *)
(* INVALID when it has an error object or a descendant is INVALID.          *)
RECURSIVE Invalid(_, _)
Invalid(t, p) == t[p].errors # Null \/ \E q \in ChildPaths(t, p) : Invalid(t, q)

(* AbstractControl.get(path) with the path's segments as `key`. *)
Get(t, base, key) ==
    IF base # NoControl /\ key # <<>> /\ (base \o key) \in DOMAIN t
    THEN base \o key ELSE NoControl

hasErrorNoInteraction(t, p) == Invalid(t, p)

hasError(t, p) == Invalid(t, p) /\ (t[p].dirty \/ t[p].touched)

----------------------------------------------------------------------------
(* The error object: a JS object whose properties Object.defineProperty    *)
(* creates or overwrites.  A property holds a message or, for a FormArray,  *)
(* the array of per-row objects.                                            *)

EmptyObject == [n \in {} |-> <<>>]
MsgEntry(m) == [isRows |-> FALSE, msg |-> m, rows |-> <<>>]
RowsEntry(rs) == [isRows |-> TRUE, msg |-> <<>>, rows |-> rs]

defineProperty(o, k, v) == [x \in DOMAIN o \cup {k} |-> IF x = k THEN v ELSE o[x]]

(* A scan threads the error object and this.message through its loops. *)
Scan(eo, m) == [eo |-> eo, message |-> m]

setErrorToErrorObject(s, field) == Scan(defineProperty(s.eo, field, MsgEntry(s.message)), s.message)

findErrorsOnFormControls(t, s, control) ==
    IF hasError(t, <<control>>)
    THEN setErrorToErrorObject(Scan(s.eo, setErrorMessage(Entries(t[<<control>>].errors))), control)
    ELSE s

(* formArrayErrors.push({}) *)
PushRow(s, formArrayName) ==
    Scan(defineProperty(s.eo, formArrayName,
             RowsEntry(Append(s.eo[formArrayName].rows, EmptyObject))), s.message)

(* Object.defineProperty(formArrayErrors[i], control, {value: this.message}) *)
SetRowError(s, formArrayName, i, control) ==
    LET rows == s.eo[formArrayName].rows
    IN  Scan(defineProperty(s.eo, formArrayName,
                 RowsEntry([rows EXCEPT ![i] = defineProperty(rows[i], control, s.message)])),
             s.message)

(* The forEach over the controls of row i, from the k-th name on. *)
RECURSIVE RowControls(_, _, _, _, _, _)
RowControls(t, s, formArrayName, i, names, k) ==
    IF k > Len(names) THEN s
    ELSE LET p == RowPath(<<formArrayName>>, i) \o <<names[k]>>
             s1 == IF hasError(t, p)
                   THEN SetRowError(Scan(s.eo, setErrorMessage(Entries(t[p].errors))),
                                    formArrayName, i, names[k])
                   ELSE s
         IN  RowControls(t, s1, formArrayName, i, names, k + 1)

(* The for-of over formArray.controls, from row i on (i counts from 1). *)
RECURSIVE findErrorsOnFormArrays(_, _, _, _)
findErrorsOnFormArrays(t, s, formArrayName, i) ==
    IF i > RowCount(t, <<formArrayName>>) THEN s
    ELSE findErrorsOnFormArrays(t,
             RowControls(t, PushRow(s, formArrayName), formArrayName, i,
                         ControlNames(t, RowPath(<<formArrayName>>, i)), 1),
             formArrayName, i + 1)

(* Object.defineProperty(this.errorObject, control, {value: []}) *)
KeepSlot(s, control) ==
    IF control \in DOMAIN s.eo THEN s
    ELSE Scan(defineProperty(s.eo, control, RowsEntry(<<>>)), s.message)

ResetSlot(s, control) == Scan(defineProperty(s.eo, control, RowsEntry(<<>>)), s.message)

(* The forEach of findErrors over Object.keys(controls), from the k-th. *)
RECURSIVE findErrorsFrom(_, _, _, _)
findErrorsFrom(t, s, names, k) ==
    IF k > Len(names) THEN s
    ELSE LET control == names[k]
             s1 == IF t[<<control>>].kind = "array"
                   THEN findErrorsOnFormArrays(t, ResetSlot(s, control), control, 1)
                   ELSE IF t[<<control>>].kind = "control"
                   THEN findErrorsOnFormControls(t, s, control)
                   ELSE s
         IN  findErrorsFrom(t, s1, names, k + 1)

(* A scan that also descends into the FormGroup children of the root. *)
RECURSIVE GroupFields(_, _, _, _, _)
GroupFields(t, s, group, names, k) ==
    IF k > Len(names) THEN s
    ELSE LET p == <<group, names[k]>>
             s1 == IF t[p].kind = "control" /\ hasError(t, p)
                   THEN setErrorToErrorObject(
                            Scan(s.eo, setErrorMessage(Entries(t[p].errors))), names[k])
                   ELSE s
         IN  GroupFields(t, s1, group, names, k + 1)

RECURSIVE DescendGroups(_, _, _, _)
DescendGroups(t, s, names, k) ==
    IF k > Len(names) THEN s
    ELSE DescendGroups(t,
             IF t[<<names[k]>>].kind = "group"
             THEN GroupFields(t, s, names[k], ControlNames(t, <<names[k]>>), 1)
             ELSE s,
             names, k + 1)

findErrorsDescending(t, s) ==
    DescendGroups(t, findErrorsFrom(t, s, ControlNames(t, <<>>), 1), ControlNames(t, <<>>), 1)

findErrors(t, s) == findErrorsFrom(t, s, ControlNames(t, <<>>), 1)

----------------------------------------------------------------------------
(* Server payloads.  A payload is a JS value: undefined, an object (its     *)
(* entries in Object.keys order), an array or a string.  A value of an      *)
(* object payload is an array of messages or a nested object from inner     *)
(* keys to messages.  Keys are given by the segments of their dotted path.  *)

UndefinedPayload == [shape |-> "undefined", entries |-> <<>>, elems |-> <<>>]
ObjectPayload(es) == [shape |-> "object", entries |-> es, elems |-> <<>>]
ArrayPayload(xs) == [shape |-> "array", entries |-> <<>>, elems |-> xs]
StringPayload(cs) == [shape |-> "string", entries |-> <<>>, elems |-> cs]

Entry(key, val) == [key |-> key, val |-> val]
SeqValue(ms) == [isArray |-> TRUE, items |-> ms]
MapValue(es) == [isArray |-> FALSE, items |-> es]

(* if (serverError): undefined, null and '' are falsy. *)
Truthy(p) == p.shape # "undefined" /\ ~(p.shape = "string" /\ p.elems = <<>>)

(* Array.isArray(serverError) *)
IsArrayPayload(p) == p.shape = "array"

isErrorAnObject(p) == ~IsArrayPayload(p)

(* Object.keys(serverError) with serverError[key]: the characters of a      *)
(* string are its indexed properties, each a one-character string whose     *)
(* own only key is "0".                                                     *)
PayloadEntries(p) ==
    IF p.shape = "string"
    THEN [i \in 1..Len(p.elems) |->
             Entry(<<IndexName(i - 1)>>, MapValue(<<Entry(<<"0">>, <<p.elems[i]>>)>>))]
    ELSE p.entries

----------------------------------------------------------------------------
(* The server-error mapper. *)

(* AbstractControl.setErrors: the status of the control and of its         *)
(* ancestors follows from `errors` (see Invalid).                           *)
(* setErrors that adds the new failure kinds to those the control has. *)
setErrorsMerging(t, p, e) ==
    [t EXCEPT ![p].errors = IF t[p].errors = Null THEN e
                            ELSE Obj(Entries(t[p].errors) \cup Entries(e))]

setErrorsAndMarkTouched(t, p, e) ==
    [t EXCEPT ![p] = IF t[p].kind = "control"
                     THEN [t[p] EXCEPT !.errors = e, !.touched = TRUE]
                     ELSE [t[p] EXCEPT !.errors = e]]

setErrors(t, p, e) == [t EXCEPT ![p].errors = e]

LastMessage(errorMessages) ==
    IF errorMessages = <<>> THEN UndefinedMessage ELSE errorMessages[Len(errorMessages)]

(* errorMessages[0] *)
FirstMessage(errorMessages) ==
    IF errorMessages = <<>> THEN UndefinedMessage ELSE errorMessages[1]

NoFlatLookup(t, field) == NoControl

(* const formControl = this.form.get(field) *)
FlatLookup(t, field) == Get(t, <<>>, field)

Mapped(t, fault) == [t |-> t, fault |-> fault]

(* The forEach of setErrorsToNestedFields over the inner keys, from the    *)
(* k-th on; reading .get of a null nestedForm throws a TypeError, which     *)
(* ends the loop.                                                           *)
RECURSIVE setErrorsToNestedFields(_, _, _, _)
setErrorsToNestedFields(t, nestedFieldName, nestedFormErrors, k) ==
    IF k > Len(nestedFormErrors) THEN Mapped(t, FALSE)
    ELSE LET field == nestedFormErrors[k].key
             err == Obj({ServerErr(nestedFormErrors[k].val)})
             formControl == FlatLookup(t, field)
             nestedForm == Get(t, <<>>, nestedFieldName)
             nestedField == Get(t, nestedForm, field)
         IN  IF formControl # NoControl
             THEN setErrorsToNestedFields(setErrors(t, formControl, err),
                                          nestedFieldName, nestedFormErrors, k + 1)
             ELSE IF nestedForm = NoControl THEN Mapped(t, TRUE)
             ELSE IF nestedField # NoControl
             THEN setErrorsToNestedFields(setErrors(t, nestedField, err),
                                          nestedFieldName, nestedFormErrors, k + 1)
             ELSE setErrorsToNestedFields(t, nestedFieldName, nestedFormErrors, k + 1)

(* The forEach of setErrorToFormFields over the keys, from the k-th on.    *)
(* `processed` counts the keys whose callback returned.                    *)
RECURSIVE setErrorToFormFields(_, _, _)
setErrorToFormFields(t, entries, k) ==
    IF k > Len(entries) THEN [t |-> t, fault |-> FALSE, processed |-> Len(entries)]
    ELSE LET field == entries[k].key
             value == entries[k].val
         IN  IF ~value.isArray
             THEN LET r == setErrorsToNestedFields(t, field, value.items, 1)
                  IN  IF r.fault THEN [t |-> r.t, fault |-> TRUE, processed |-> k - 1]
                      ELSE setErrorToFormFields(r.t, entries, k + 1)
             ELSE LET c == Get(t, <<>>, field)
                  IN  setErrorToFormFields(
                          IF c # NoControl
                          THEN setErrors(t, c, Obj({ServerErr(FirstMessage(value.items))}))
                          ELSE t,
                          entries, k + 1)

----------------------------------------------------------------------------
(* The operations. *)

NoScan == [form |-> "none", count |-> 0]
NoOutcome == [fault |-> FALSE, alerted |-> FALSE, processed |-> 0]

(* organizeServerErrors mapping onto the form passed in without making it  *)
(* the current form.                                                        *)
organizeServerErrorsKeepForm(p, f) ==
    IF ~Truthy(p)
    THEN /\ outcome' = NoOutcome
         /\ UNCHANGED <<tree, acc, form, errorObject, serverError, message, sub, lastScan>>
    ELSE /\ serverError' = p
         /\ IF isErrorAnObject(p)
            THEN LET r == setErrorToFormFields(tree[f], PayloadEntries(p), 1)
                 IN  /\ tree' = [tree EXCEPT ![f] = r.t]
                     /\ outcome' = [fault |-> r.fault, alerted |-> FALSE,
                                    processed |-> r.processed]
            ELSE /\ tree' = tree
                 /\ outcome' = [fault |-> FALSE, alerted |-> TRUE, processed |-> 0]
         /\ lastScan' = IF tree' = tree THEN lastScan ELSE NoScan
         /\ UNCHANGED <<acc, form, errorObject, message, sub>>

(* organizeServerErrors(serverError, form).  A TypeError thrown by the     *)
(* mapper leaves the assignments made before it in place.                   *)
organizeServerErrors(p, f) ==
    IF ~Truthy(p)
    THEN /\ outcome' = NoOutcome
         /\ UNCHANGED <<tree, acc, form, errorObject, serverError, message, sub, lastScan>>
    ELSE /\ form' = f
         /\ serverError' = p
         /\ IF isErrorAnObject(p)
            THEN LET r == setErrorToFormFields(tree[f], PayloadEntries(p), 1)
                 IN  /\ tree' = [tree EXCEPT ![f] = r.t]
                     /\ outcome' = [fault |-> r.fault, alerted |-> FALSE,
                                    processed |-> r.processed]
            ELSE /\ tree' = tree
                 /\ outcome' = [fault |-> FALSE, alerted |-> TRUE, processed |-> 0]
         /\ lastScan' = IF tree' = tree THEN lastScan ELSE NoScan
         /\ UNCHANGED <<acc, errorObject, message, sub>>

(* handleErrors(form, errorObject): a second subscription on the same form  *)
(* fires in the same turn as the first and repeats its scan.                *)
handleErrors(f, a) ==
    /\ form' = f
    /\ errorObject' = a
    /\ sub' = [sub EXCEPT ![f].active = TRUE]
    /\ lastScan' = NoScan
    /\ UNCHANGED <<tree, acc, serverError, message, outcome>>

(* form.valueChanges emits a newly built value object on every update, so   *)
(* the pending emission (Fresh) is never the object delivered before        *)
(* (Seen): distinctUntilChanged compares with ===.                          *)
Fresh == "fresh"
Seen == "seen"
distinctUntilChanged(previous, current) == previous # current

(* The subscriber without its test of form.invalid. *)
DeliverUnconditional(f) ==
    /\ sub[f].active
    /\ sub[f].timer
    /\ sub' = [sub EXCEPT ![f].timer = FALSE, ![f].lastVal = Seen, ![f].unchanged = TRUE]
    /\ LET r == findErrors(tree[f], Scan(acc[errorObject], message))
       IN  /\ acc' = [acc EXCEPT ![errorObject] = r.eo]
           /\ message' = r.message
    /\ lastScan' = [form |-> f, count |-> 1]
    /\ UNCHANGED <<tree, form, errorObject, serverError, outcome>>

(* The subscriber of handleErrors, run when the 350 ms debounce timer of    *)
(* form f expires.                                                          *)
Deliver(f) ==
    /\ sub[f].active
    /\ sub[f].timer
    /\ sub' = [sub EXCEPT ![f].timer = FALSE, ![f].lastVal = Seen, ![f].unchanged = TRUE]
    /\ IF distinctUntilChanged(sub[f].lastVal, Fresh) /\ Invalid(tree[f], <<>>)
       THEN LET r == findErrors(tree[f], Scan(acc[errorObject], message))
            IN  /\ acc' = [acc EXCEPT ![errorObject] = r.eo]
                /\ message' = r.message
                /\ lastScan' = [form |-> f,
                                count |-> IF lastScan.form = f /\ lastScan.count < RescanCap
                                          THEN lastScan.count + 1
                                          ELSE IF lastScan.form = f THEN lastScan.count ELSE 1]
       ELSE UNCHANGED <<acc, message, lastScan>>
    /\ UNCHANGED <<tree, form, errorObject, serverError, outcome>>

(* markAllAsTouched, then setErrors({}) on the form: statusChanges emits,   *)
(* valueChanges does not.                                                   *)
markAllAsTouched(t) ==
    [p \in DOMAIN t |-> IF t[p].kind = "control" THEN [t[p] EXCEPT !.touched = TRUE] ELSE t[p]]

invalidFormHasSubmit ==
    /\ IF form = Undefined
       THEN UNCHANGED <<tree, lastScan>>
       ELSE /\ tree' = [tree EXCEPT ![form] = setErrors(markAllAsTouched(tree[form]), <<>>, Obj({}))]
            /\ lastScan' = IF tree' = tree THEN lastScan ELSE NoScan
    /\ UNCHANGED <<acc, form, errorObject, serverError, message, sub, outcome>>

----------------------------------------------------------------------------
(* The form's side: the user, the validators of the external engine.        *)

(* updateValueAndValidity of control p after its value was set: the         *)
(* validators give p the error object e, every ancestor recomputes its own  *)
(* errors (it has no validators, so null) and valueChanges emits on each.   *)
updateValueAndValidity(t, p, e, ui) ==
    [q \in DOMAIN t |->
        IF q = p THEN [t[q] EXCEPT !.errors = e, !.dirty = t[q].dirty \/ ui]
        ELSE IF IsPrefix(q, p) THEN [t[q] EXCEPT !.errors = Null]
        ELSE t[q]]

(* A value of control p of form f changes, from the UI (ui) or from code.   *)
ValueChange(f, p, e, ui) ==
    /\ tree' = [tree EXCEPT ![f] = updateValueAndValidity(tree[f], p, e, ui)]
    /\ sub' = IF sub[f].active
              THEN [sub EXCEPT ![f].timer = TRUE, ![f].unchanged = FALSE] ELSE sub
    /\ lastScan' = IF tree' = tree THEN lastScan ELSE NoScan
    /\ UNCHANGED <<acc, form, errorObject, serverError, message, outcome>>

(* control.setValue(control.value) on control p of form f: the value is set *)
(* to what it already is, the validators report what they reported for it, *)
(* (the control holds no error set from outside), and valueChanges emits   *)
(* a newly built object of the same content.                               *)
(* sub[f].unchanged records that no value has changed since the emission   *)
(* last delivered to the subscriber.                                       *)
SetSameValue(f, p) ==
    /\ sub[f].active
    /\ IF tree[f][p].errors = Null THEN TRUE
       ELSE ~Has(Entries(tree[f][p].errors), "serverError")
    /\ tree' = [tree EXCEPT ![f] = updateValueAndValidity(tree[f], p, tree[f][p].errors, FALSE)]
    /\ sub' = [sub EXCEPT ![f].timer = TRUE]
    /\ lastScan' = IF tree' = tree THEN lastScan ELSE NoScan
    /\ UNCHANGED <<acc, form, errorObject, serverError, message, outcome>>

(* Control p of form f loses focus: markAsTouched. *)
Blur(f, p) ==
    /\ ~tree[f][p].touched
    /\ tree' = [tree EXCEPT ![f][p].touched = TRUE]
    /\ lastScan' = NoScan
    /\ UNCHANGED <<acc, form, errorObject, serverError, message, sub, outcome>>

----------------------------------------------------------------------------
(* Inputs. *)

BSeq(S, lo, hi) == UNION {[1..n -> S] : n \in lo..hi}
DistinctKeys(es) == \A i, j \in 1..Len(es) : i # j => es[i].key # es[j].key

Messages == {<<m>> : m \in Msgs}
OuterKeys == {<<"email">>, <<"address">>, <<"zzz">>}
InnerKeys == {<<"email">>, <<"city">>, <<"zzz">>}

SeqValues == {SeqValue(ms) : ms \in BSeq(Messages, 1, MaxMsgs)}
(* One message per inner key: nestedFormErrors[field] is attached whole,   *)
(* whatever it is.                                                         *)
InnerEntries == {Entry(k, <<"m2">>) : k \in InnerKeys}
MapValues == {MapValue(es) : es \in {x \in BSeq(InnerEntries, 1, MaxInner) : DistinctKeys(x)}}
TopEntries == {Entry(k, v) : k \in OuterKeys, v \in SeqValues \cup MapValues}
ObjectPayloads == {ObjectPayload(es) : es \in {x \in BSeq(TopEntries, 0, MaxKeys) : DistinctKeys(x)}}
MalformedPayloads == {ArrayPayload(<<>>), ArrayPayload(<<"m1">>), StringPayload(<<"E">>)}
FalsyPayloads == {UndefinedPayload, StringPayload(<<>>)}
ServerPayloads == ObjectPayloads \cup MalformedPayloads \cup FalsyPayloads

MainPayloads ==
    { ObjectPayload(<<Entry(<<"email">>, SeqValue(<<<<"m1">>>>))>>),
      ObjectPayload(<<Entry(<<"address">>, MapValue(<<Entry(<<"city">>, <<"m1">>)>>))>>) }

(* What the validators of a control may report. *)
LocalOutcomes == {Null, Obj({Required})}

Opt(X) == {{}} \cup {{x} : x \in X}
ParamPairs == {<<b, a>> : b \in 0..MaxParam, a \in 0..MaxParam}
ErrorObjects ==
    { Obj(a \cup b \cup c \cup d \cup e \cup g \cup h \cup i) :
        a \in Opt({Failure("maxlength", x) : x \in ParamPairs}),
        b \in Opt({Email}), c \in Opt({Required}),
        d \in Opt({Failure("min", x) : x \in ParamPairs}),
        e \in Opt({Failure("max", x) : x \in ParamPairs}),
        g \in Opt({Pattern}), h \in Opt({ServerErr(m) : m \in Messages}),
        i \in Opt({MinLength}) }

(* Forms: { email, address: { city } }, { items: [ { qty }, ... ] },        *)
(* { email, items: [ { qty } ] }, { items: [ { qty, sku } ] },              *)
(* { email } and the empty form.                                            *)
FlatTree(e1, e2) ==
    (<<>> :> Group(Null)) @@ (<<"email">> :> Control(e1, FALSE, FALSE))
    @@ (<<"address">> :> Group(Null)) @@ (<<"address", "city">> :> Control(e2, FALSE, FALSE))

RowsTree(es) ==
    [p \in {<<>>, <<"items">>} \cup {RowPath(<<"items">>, i) : i \in 1..Len(es)}
           \cup {RowPath(<<"items">>, i) \o <<"qty">> : i \in 1..Len(es)} |->
        IF p = <<>> THEN Group(Null)
        ELSE IF p = <<"items">> THEN Array(Null)
        ELSE IF Len(p) = 2 THEN Group(Null)
        ELSE Control(es[CHOOSE i \in 1..Len(es) : RowPath(<<"items">>, i) = SubSeq(p, 1, 2)],
                     FALSE, FALSE)]

SingleTree(e, touched) == (<<>> :> Group(Null)) @@ (<<"email">> :> Control(e, touched, FALSE))

MixedTree(e1, e2) == RowsTree(<<e2>>) @@ (<<"email">> :> Control(e1, FALSE, FALSE))

WideRowTree(e1, e2) == RowsTree(<<e1>>) @@ (<<"items", "0", "sku">> :> Control(e2, FALSE, FALSE))

EmptyForm == (<<>> :> Group(Null))

MainTrees ==
    {FlatTree(e1, e2) : e1 \in LocalOutcomes, e2 \in LocalOutcomes}
    \cup {RowsTree(es) : es \in BSeq(LocalOutcomes, 0, MaxRows)}
    \cup {MixedTree(e1, e2) : e1 \in LocalOutcomes, e2 \in LocalOutcomes}
    \cup {WideRowTree(e1, e2) : e1 \in LocalOutcomes, e2 \in LocalOutcomes}

NoCall == [op |-> "none", form |-> "none", present |-> FALSE]
NoSub == [active |-> FALSE, timer |-> FALSE, lastVal |-> "none", unchanged |-> FALSE]

InitHandler ==
    /\ acc = [a \in Accs |-> EmptyObject]
    /\ form = Undefined
    /\ errorObject = Undefined
    /\ serverError = UndefinedPayload
    /\ message = UndefinedMessage
    /\ sub = [f \in Forms |-> NoSub]
    /\ outcome = NoOutcome
    /\ lastScan = NoScan
    /\ call = NoCall

----------------------------------------------------------------------------
(* Spec: one form session, from the construction of the handler.            *)

Init ==
    /\ \E t \in MainTrees : tree = [f \in Forms |-> IF f = "A" THEN t ELSE EmptyForm]
    /\ InitHandler

Register == handleErrors("A", "accA") /\ UNCHANGED call
Input ==
    /\ \E p \in Leaves(tree["A"]), e \in LocalOutcomes, ui \in BOOLEAN : ValueChange("A", p, e, ui)
    /\ UNCHANGED call
Touch == (\E p \in Leaves(tree["A"]) : Blur("A", p)) /\ UNCHANGED call
Debounced == Deliver("A") /\ UNCHANGED call
Resend == (\E p \in Leaves(tree["A"]) : SetSameValue("A", p)) /\ UNCHANGED call
Submit == invalidFormHasSubmit /\ UNCHANGED call
ServerResponse == (\E p \in MainPayloads : organizeServerErrors(p, "A")) /\ UNCHANGED call

Next == Register \/ Input \/ Resend \/ Touch \/ Debounced \/ Submit \/ ServerResponse

Spec == Init /\ [][Next]_vars

----------------------------------------------------------------------------
(* ServerSpec: the first server payload mapped onto a form, for every       *)
(* payload of the bounded set.                                              *)

ServerInit ==
    /\ \E e1 \in LocalOutcomes, e2 \in LocalOutcomes :
          tree = [f \in Forms |-> IF f = "A" THEN FlatTree(e1, e2) ELSE EmptyForm]
    /\ InitHandler

FirstResponse ==
    /\ serverError = UndefinedPayload
    /\ \E p \in ServerPayloads : organizeServerErrors(p, "A")
    /\ UNCHANGED call

ServerNext == FirstResponse

ServerSpec == ServerInit /\ [][ServerNext]_vars

----------------------------------------------------------------------------
(* FormatterSpec: one scan of a registered form { email } whose field is    *)
(* interacted and carries any error object of the bounded set.              *)

FormatterInit ==
    /\ \E e \in ErrorObjects :
          tree = [f \in Forms |-> IF f = "A" THEN SingleTree(e, TRUE) ELSE EmptyForm]
    /\ acc = [a \in Accs |-> EmptyObject]
    /\ form = "A"
    /\ errorObject = "accA"
    /\ serverError = UndefinedPayload
    /\ message \in {UndefinedMessage, setErrorMessage({Required})}
    /\ sub = [f \in Forms |-> IF f = "A" THEN [active |-> TRUE, timer |-> TRUE, lastVal |-> "none", unchanged |-> FALSE]
                              ELSE NoSub]
    /\ outcome = NoOutcome
    /\ lastScan = NoScan
    /\ call = NoCall

FormatterNext == Debounced

FormatterSpec == FormatterInit /\ [][FormatterNext]_vars

----------------------------------------------------------------------------
(* WritersSpec: a registered form whose notification is pending, the first  *)
(* server payload (every shape, at most one key), and the subscriber.       *)

WriterTrees ==
    LET ts == {FlatTree(e1, e2) : e1 \in LocalOutcomes, e2 \in LocalOutcomes}
              \cup {MixedTree(e1, e2) : e1 \in LocalOutcomes, e2 \in LocalOutcomes}
    IN  ts \cup {markAllAsTouched(t) : t \in ts}

WriterPayloads ==
    {ObjectPayload(es) : es \in BSeq(TopEntries, 0, 1)} \cup MalformedPayloads \cup FalsyPayloads

WritersInit ==
    /\ \E t \in WriterTrees : tree = [f \in Forms |-> IF f = "A" THEN t ELSE EmptyForm]
    /\ acc = [a \in Accs |-> EmptyObject]
    /\ form = "A"
    /\ errorObject = "accA"
    /\ serverError = UndefinedPayload
    /\ message = UndefinedMessage
    /\ sub = [f \in Forms |-> IF f = "A"
                              THEN [active |-> TRUE, timer |-> TRUE, lastVal |-> "none",
                                    unchanged |-> FALSE]
                              ELSE NoSub]
    /\ outcome = NoOutcome
    /\ lastScan = NoScan
    /\ call = NoCall

AnyResponse ==
    /\ serverError = UndefinedPayload
    /\ \E p \in WriterPayloads : organizeServerErrors(p, "A")
    /\ UNCHANGED call

WritersNext == AnyResponse \/ Debounced

WritersSpec == WritersInit /\ [][WritersNext]_vars

----------------------------------------------------------------------------
(* SessionSpec: one handler shared by two forms, A { email } with its       *)
(* accumulator accA and B { items: [ { qty } ] } with accB.  The user edits  *)
(* form A; every step records the operation invoked in `call`.              *)

AccOf(f) == IF f = "A" THEN "accA" ELSE "accB"

Call(op, f, present) == [op |-> op, form |-> f, present |-> present]

SessionPayloads ==
    {UndefinedPayload, ArrayPayload(<<"m1">>),
     ObjectPayload(<<Entry(<<"email">>, SeqValue(<<<<"m1">>>>))>>)}

SessionInit ==
    /\ \E e1 \in LocalOutcomes, e2 \in LocalOutcomes :
          tree = [f \in Forms |-> IF f = "A" THEN SingleTree(e1, FALSE) ELSE RowsTree(<<e2>>)]
    /\ InitHandler

SessionRegister ==
    \E f \in Forms : handleErrors(f, AccOf(f)) /\ call' = Call("handleErrors", f, TRUE)

SessionInput ==
    \E p \in Leaves(tree["A"]), e \in LocalOutcomes :
        ValueChange("A", p, e, TRUE) /\ call' = Call("valueChange", "A", TRUE)

SessionDebounced == \E f \in Forms : Deliver(f) /\ call' = Call("deliver", f, TRUE)

SessionSubmit == invalidFormHasSubmit /\ call' = Call("invalidFormHasSubmit", "none", TRUE)

SessionResponse ==
    \E f \in Forms, p \in SessionPayloads :
        organizeServerErrors(p, f) /\ call' = Call("organizeServerErrors", f, Truthy(p))

SessionNext ==
    SessionRegister \/ SessionInput \/ SessionDebounced \/ SessionSubmit \/ SessionResponse

SessionSpec == SessionInit /\ [][SessionNext]_vars

----------------------------------------------------------------------------
(* Properties of the scanner (Spec).                                        *)

(* invalid AND (dirty OR touched), as the specification words it. *)
InvalidAndInteracted(t, p) == Invalid(t, p) /\ (t[p].dirty \/ t[p].touched)

(* A step in which the subscriber of form f ran findErrors: only the        *)
(* subscriber clears the debounce timer, and it scans when the form is      *)
(* invalid.                                                                 *)
ScanRan(f) == sub[f].timer /\ ~sub'[f].timer /\ Invalid(tree[f], <<>>)

SameProperty(o1, o2, k) ==
    /\ (k \in DOMAIN o1) <=> (k \in DOMAIN o2)
    /\ k \in DOMAIN o1 => o1[k] = o2[k]

TopArrays(t) == {n \in {NameOrder[i] : i \in 1..Len(NameOrder)} :
                    <<n>> \in DOMAIN t /\ t[<<n>>].kind = "array"}
AllNames(t, o) == {NameOrder[i] : i \in 1..Len(NameOrder)} \cup DOMAIN o

(* C1: a scan never writes or changes the accumulator entry of a field      *)
(* that is not invalid AND (dirty OR touched) at scan time: the top-level   *)
(* property of every name that is neither such a FormControl child nor a    *)
(* FormArray child is left as it was (so fields of nested groups get none), *)
(* and a per-row object holds no key of a row field that is not such.       *)
C1_ScanWritesOnlyFieldsWithError ==
    [][\A f \in Forms : ScanRan(f) =>
          /\ \A n \in AllNames(tree[f], acc[errorObject]) :
                ~(\/ n \in TopArrays(tree[f])
                  \/ /\ <<n>> \in Leaves(tree[f])
                     /\ InvalidAndInteracted(tree[f], <<n>>))
                => SameProperty(acc[errorObject], acc'[errorObject], n)
          /\ \A a \in TopArrays(tree[f]) : \A i \in 1..RowCount(tree[f], <<a>>) :
                \A n \in DOMAIN acc'[errorObject][a].rows[i] :
                    /\ (RowPath(<<a>>, i) \o <<n>>) \in Leaves(tree[f])
                    /\ InvalidAndInteracted(tree[f], RowPath(<<a>>, i) \o <<n>>)
      ]_vars

(* C1 witness: a scan ran on a form whose invalid email field is neither    *)
(* dirty nor touched and whose row field qty is invalid and touched: email  *)
(* has no entry, the row has one for qty.                                   *)
C1_Witness ==
    /\ lastScan.form = "A" /\ lastScan.count >= 1
    /\ <<"email">> \in DOMAIN tree["A"] /\ <<"items">> \in DOMAIN tree["A"]
    /\ tree["A"][<<"email">>].errors # Null
    /\ ~tree["A"][<<"email">>].touched /\ ~tree["A"][<<"email">>].dirty
    /\ tree["A"][<<"items", "0", "qty">>].errors # Null
    /\ tree["A"][<<"items", "0", "qty">>].touched
    /\ "email" \notin DOMAIN acc["accA"]
    /\ DOMAIN acc["accA"]["items"].rows[1] = {"qty"}

(* C2: once the latest value-change notification has been processed (no    *)
(* debounce timer is pending), the accumulator holds a message under a      *)
(* top-level field name only if that field is invalid AND (dirty OR         *)
(* touched).                                                                *)
C2_AccumulatorSynchronized ==
    \A f \in Forms :
        (sub[f].active /\ ~sub[f].timer /\ sub[f].lastVal = Seen /\ form = f)
        => \A n \in DOMAIN acc[errorObject] :
              <<n>> \in Leaves(tree[f]) => InvalidAndInteracted(tree[f], <<n>>)

(* C4: after invalidFormHasSubmit on a registered form (the form carries    *)
(* the {} error it sets, so no value has changed since) every field is      *)
(* touched and, once no notification is pending, the accumulator holds a    *)
(* message for each top-level field that is invalid.                        *)
C4_SubmitPicksUpInvalidFields ==
    \A f \in Forms :
        (form = f /\ sub[f].active /\ ~sub[f].timer /\ tree[f][<<>>].errors = Obj({}))
        => /\ \A p \in Leaves(tree[f]) : tree[f][p].touched
           /\ \A p \in Leaves(tree[f]) :
                 (Len(p) = 1 /\ Invalid(tree[f], p)) => p[1] \in DOMAIN acc[errorObject]

(* The per-row objects a scan of FormArray a must leave. *)
ExpectedRows(t, a) ==
    [i \in 1..RowCount(t, <<a>>) |->
        [n \in {m \in {NameOrder[k] : k \in 1..Len(NameOrder)} :
                   /\ (RowPath(<<a>>, i) \o <<m>>) \in Leaves(t)
                   /\ InvalidAndInteracted(t, RowPath(<<a>>, i) \o <<m>>)} |->
            setErrorMessage(Entries(t[RowPath(<<a>>, i) \o <<n>>].errors))]]

(* C8: after every scan that ran (the tree has not changed since), the      *)
(* accumulator's entry of a FormArray child with n rows is a sequence of    *)
(* exactly n objects, the i-th holding exactly the fields of row i that     *)
(* are invalid AND (dirty OR touched), each with its formatted message.     *)
C8_RowsReplacedOnEachScan ==
    lastScan.count >= 1 =>
        \A a \in TopArrays(tree[lastScan.form]) :
            /\ a \in DOMAIN acc[errorObject]
            /\ acc[errorObject][a] = RowsEntry(ExpectedRows(tree[lastScan.form], a))

(* C8 witness: a second scan of two rows, the first without and the second  *)
(* with a message.                                                          *)
C8_Witness ==
    /\ lastScan.form = "A" /\ lastScan.count >= 2
    /\ RowCount(tree["A"], <<"items">>) = 2
    /\ "items" \in DOMAIN acc["accA"]
    /\ Len(acc["accA"]["items"].rows) = 2
    /\ DOMAIN acc["accA"]["items"].rows[1] = {}
    /\ DOMAIN acc["accA"]["items"].rows[2] = {"qty"}

(* C10: a scan run again on the tree the last scan saw leaves the           *)
(* accumulator (its top-level entries and every row sequence) as it is.     *)
C10_ScanIdempotent ==
    lastScan.count >= 1 =>
        findErrors(tree[lastScan.form], Scan(acc[errorObject], message)).eo = acc[errorObject]

(* C10 witness: two scans in a row of a form with rows and a message.       *)
C10_Witness ==
    /\ lastScan.form = "A" /\ lastScan.count = 2
    /\ "items" \in DOMAIN acc["accA"]
    /\ \E i \in 1..Len(acc["accA"]["items"].rows) : DOMAIN acc["accA"]["items"].rows[i] # {}

----------------------------------------------------------------------------
(* Properties of the server-error mapper (ServerSpec).                      *)

(* The control the specification's two-tier rule names for inner key        *)
(* `inner` under outer key `outer`: the root's child, else the child of     *)
(* the root's group `outer`.                                                *)
ClaimedTarget(t, outer, inner) ==
    IF Get(t, <<>>, inner) # NoControl THEN Get(t, <<>>, inner)
    ELSE Get(t, Get(t, <<>>, outer), inner)

(* The controls an entry of the payload may attach a message to. *)
PotentialTargets(t, e) ==
    IF e.val.isArray THEN {Get(t, <<>>, e.key)}
    ELSE {ClaimedTarget(t, e.key, e.val.items[k].key) : k \in 1..Len(e.val.items)}

Untargeted(t, es, q) == \A j \in 1..Len(es) : q \notin PotentialTargets(t, es[j])

(* A step that is a call of organizeServerErrors with an object payload. *)
MappedObject == serverError' # serverError /\ serverError'.shape = "object"

(* C3: a payload key that resolves to no field is skipped silently: the     *)
(* call raises no fault, every key of the payload is processed, and a       *)
(* control that no key resolves to keeps its state.                         *)
C3_LookupMissSkipped ==
    [][MappedObject =>
          /\ ~outcome'.fault
          /\ outcome'.processed = Len(serverError'.entries)
          /\ \A q \in DOMAIN tree[form'] :
                Untargeted(tree[form'], serverError'.entries, q)
                => tree'[form'][q] = tree[form'][q]
      ]_vars

C7_MalformedPayloadRefused ==
    [][(serverError' # serverError /\ serverError'.shape # "object") =>
          /\ outcome'.alerted
          /\ ~outcome'.fault
          /\ tree' = tree
      ]_vars

----------------------------------------------------------------------------
(* Properties of the message formatter (FormatterSpec).                     *)

PriorityOrder == <<"maxlength", "email", "required", "min", "max", "pattern", "serverError">>

(* The message of one failure kind of error object S. *)
KindMessage(S, kind) ==
    CASE kind = "maxlength" ->
            <<"Gjatesia maksimale e lejuar ">> \o Str(Param(S, kind)[2]) \o <<"/">>
                \o Str(Param(S, kind)[1])
      [] kind = "email" -> <<"Email nuk eshte i sakte">>
      [] kind = "required" -> <<"Fushe e detyrueshme">>
      [] kind = "min" ->
            <<"Vlera minimale eshte ">> \o Str(Param(S, kind)[1]) \o <<", vlera aktuale ">>
                \o Str(Param(S, kind)[2])
      [] kind = "max" ->
            <<"Vlera maksimale eshte ">> \o Str(Param(S, kind)[1]) \o <<", vlera aktuale ">>
                \o Str(Param(S, kind)[2])
      [] kind = "pattern" -> <<"Vlera e dhene nuk eshte e sakte">>
      [] kind = "serverError" -> Param(S, kind)

ExpectedMessage(S) ==
    LET present == SelectSeq(PriorityOrder, LAMBDA k : Has(S, k))
    IN  IF present = <<>> THEN <<>> ELSE KindMessage(S, present[1])

(* C9: the scan of an interacted field leaves, as this.message and as the   *)
(* field's entry, the message of the highest-priority kind present in its   *)
(* error object (maxlength, email, required, min, max, pattern,             *)
(* serverError), and the empty string when none of the seven is present,    *)
(* whatever this.message held before.                                       *)
C9_FormatterPriority ==
    (sub["A"].active /\ ~sub["A"].timer) =>
        LET S == Entries(tree["A"][<<"email">>].errors)
        IN  /\ message = ExpectedMessage(S)
            /\ acc["accA"] = ("email" :> MsgEntry(ExpectedMessage(S)))

(* C9 witness: email, pattern and server-error failures together gave the   *)
(* email message.                                                           *)
C9_Witness ==
    /\ sub["A"].active /\ ~sub["A"].timer
    /\ LET S == Entries(tree["A"][<<"email">>].errors)
       IN  /\ Has(S, "email") /\ Has(S, "pattern") /\ Has(S, "serverError") /\ Has(S, "max")
           /\ ~Has(S, "maxlength")
           /\ acc["accA"]["email"].msg = <<"Email nuk eshte i sakte">>

(* The positions at which the decimal numeral of n occurs in message m. *)
Occurrences(m, n) ==
    {i \in 1..Len(m) : i + Len(Str(n)) - 1 <= Len(m) /\ SubSeq(m, i, i + Len(Str(n)) - 1) = Str(n)}

(* C15: when the failure kind that decides the message is maxlength, min or *)
(* max, the message written for the field holds the numeral of the kind's   *)
(* bound and, at another place, the numeral of its actual value, for every  *)
(* pair of bound and actual value.                                          *)
C15_BoundAndActualInterpolated ==
    (sub["A"].active /\ ~sub["A"].timer) =>
        LET S == Entries(tree["A"][<<"email">>].errors)
            present == SelectSeq(PriorityOrder, LAMBDA k : Has(S, k))
            m == acc["accA"]["email"].msg
        IN  (present # <<>> /\ present[1] \in {"maxlength", "min", "max"}) =>
                \E i \in Occurrences(m, Param(S, present[1])[1]) :
                    \E j \in Occurrences(m, Param(S, present[1])[2]) : i # j

(* C15 witness: a minimum-value failure with bound 1 and actual value 0     *)
(* decided the message, which holds 1 before 0.                             *)
C15_Witness ==
    /\ sub["A"].active /\ ~sub["A"].timer
    /\ LET S == Entries(tree["A"][<<"email">>].errors)
       IN  /\ Has(S, "min") /\ Param(S, "min") = <<1, 0>>
           /\ ~Has(S, "maxlength") /\ ~Has(S, "email") /\ ~Has(S, "required")
           /\ Has(S, "max") /\ Param(S, "max") = <<0, 1>>
           /\ acc["accA"]["email"].msg
                 = <<"Vlera minimale eshte ", "1", ", vlera aktuale ", "0">>

----------------------------------------------------------------------------
(* Properties of the subscription (Spec).                                   *)

(* No control of the tree carries an error object: the root is VALID. *)
NoErrorsAnywhere(t) == \A p \in DOMAIN t : t[p].errors = Null

(* A step in which the debounced notification of form f is delivered. *)
Delivered(f) == sub[f].timer /\ ~sub'[f].timer

(* C11: a notification delivered while the root form is valid leaves the    *)
(* whole accumulator (and this.message) unchanged, and the accumulator      *)
(* changes only in a delivery made while the root form is invalid.          *)
C11_ValidFormNoScan ==
    [][/\ \A f \in Forms : (Delivered(f) /\ NoErrorsAnywhere(tree[f]))
                              => (acc' = acc /\ message' = message)
       /\ acc' # acc => \E f \in Forms : Delivered(f) /\ ~NoErrorsAnywhere(tree[f])
      ]_vars

(* C11 witness: the last notification was delivered to a valid form whose   *)
(* rows were never scanned: the accumulator is still empty.                 *)
C11_Witness ==
    /\ sub["A"].active /\ ~sub["A"].timer /\ sub["A"].lastVal = Seen
    /\ NoErrorsAnywhere(tree["A"])
    /\ <<"items">> \in DOMAIN tree["A"]
    /\ \E p \in Leaves(tree["A"]) : tree["A"][p].dirty
    /\ acc["accA"] = EmptyObject

(* C12: the accumulator is written only when a debounce timer expires (one  *)
(* delivery per burst of changes), and the delivery of an emission whose    *)
(* content equals that of the emission delivered before it (no value has    *)
(* changed in between) causes no scan.                                      *)
C12_DebounceAndDistinct ==
    [][/\ acc' # acc => \E f \in Forms : Delivered(f)
       /\ \A f \in Forms :
             (Delivered(f) /\ sub[f].lastVal = Seen /\ sub[f].unchanged)
             => (acc' = acc /\ message' = message)
      ]_vars

(* The FormGroup children of the root, and the names of those groups and of *)
(* everything nested inside them.                                           *)
GroupChildren(t) == {q \in ChildPaths(t, <<>>) : t[q].kind = "group"}
NamesInGroups(t) ==
    {p[Len(p)] : p \in {q \in DOMAIN t : \E g \in GroupChildren(t) : IsPrefix(g, q)}}
RootFieldNames(t) == {q[1] : q \in {r \in ChildPaths(t, <<>>) : t[r].kind # "group"}}

(* C14: a delivery (a scan, when one runs) never writes the accumulator     *)
(* entry keyed by the name of a FormGroup child of the root or of a field   *)
(* nested inside one (unless the root has a field or FormArray of that      *)
(* name): the property is left as it was, whatever the nested field's       *)
(* validity and interaction flags.                                          *)
C14_NoDescentIntoGroups ==
    [][\A f \in Forms : Delivered(f) =>
          \A a \in Accs : \A n \in NamesInGroups(tree[f]) \ RootFieldNames(tree[f]) :
              SameProperty(acc[a], acc'[a], n)
      ]_vars

(* C14 witness: a scan ran while address.city was invalid and touched, and  *)
(* the accumulator has no entry for address or city.                        *)
C14_Witness ==
    /\ lastScan.form = "A" /\ lastScan.count >= 1
    /\ <<"address", "city">> \in DOMAIN tree["A"]
    /\ tree["A"][<<"address", "city">>].errors = Obj({Required})
    /\ tree["A"][<<"address", "city">>].touched
    /\ tree["A"][<<"email">>].errors = Obj({Required}) /\ tree["A"][<<"email">>].touched
    /\ DOMAIN acc["accA"] = {"email"}

----------------------------------------------------------------------------
(* Properties of the two writers together (WritersSpec).                    *)

(* Tree t1 differs from t0 at most in the error objects of fields. *)
OnlyFieldErrorsDiffer(t0, t1) ==
    /\ DOMAIN t1 = DOMAIN t0
    /\ \A p \in DOMAIN t0 :
          IF t0[p].kind = "control"
          THEN /\ t1[p].kind = "control"
               /\ t1[p].touched = t0[p].touched
               /\ t1[p].dirty = t0[p].dirty
          ELSE t1[p] = t0[p]

(* Tree t1 differs from t0 at most in the error objects of its nodes        *)
(* (fields, groups, repeating groups).                                      *)
OnlyErrorsDiffer(t0, t1) ==
    /\ DOMAIN t1 = DOMAIN t0
    /\ \A p \in DOMAIN t0 : [t1[p] EXCEPT !.errors = t0[p].errors] = t0[p]

(* C13, as amended: a step that is not a delivery to the subscriber (a call *)
(* of organizeServerErrors, whatever the payload) leaves the accumulators   *)
(* unchanged and changes at most the error objects of nodes of the tree,    *)
(* fields or groups; a delivery (a scan, when one runs) leaves every tree   *)
(* unchanged.                                                               *)
C13_WritersDisjoint ==
    [][/\ (\E f \in Forms : Delivered(f)) => tree' = tree
       /\ ~(\E f \in Forms : Delivered(f)) =>
             /\ acc' = acc
             /\ \A f \in Forms : OnlyErrorsDiffer(tree[f], tree'[f])
      ]_vars

(* C13, as stated: organizeServerErrors leaves the accumulators unchanged   *)
(* and changes only the failure kinds of fields (leaves); a scan leaves the *)
(* tree unchanged.                                                          *)
C13_OnlyFieldsMutated ==
    [][/\ (\E f \in Forms : Delivered(f)) => tree' = tree
       /\ ~(\E f \in Forms : Delivered(f)) =>
             /\ acc' = acc
             /\ \A f \in Forms : OnlyFieldErrorsDiffer(tree[f], tree'[f])
      ]_vars

(* C13 witness: the mapper attached m1 to email and then a scan wrote the   *)
(* accumulator; email still carries exactly what the mapper attached.       *)
C13_Witness ==
    /\ serverError = ObjectPayload(<<Entry(<<"email">>, SeqValue(<<<<"m1">>, <<"m2">>>>))>>)
    /\ tree["A"][<<"email">>].errors = Obj({ServerErr(<<"m1">>)})
    /\ tree["A"][<<"email">>].touched
    /\ lastScan = [form |-> "A", count |-> 1]
    /\ "email" \in DOMAIN acc["accA"]

(* The node and the message of the k-th attachment the payload entry e      *)
(* asks for: the first message of a sequence on the root's child e.key, or  *)
(* the k-th inner message on the control the two-tier rule names.           *)
AttachTarget(t, e, k) ==
    IF e.val.isArray THEN Get(t, <<>>, e.key)
    ELSE ClaimedTarget(t, e.key, e.val.items[k].key)
AttachMessage(e, k) == IF e.val.isArray THEN e.val.items[1] ELSE e.val.items[k].val

(* C17: after organizeServerErrors has attached message m to a node, the    *)
(* node's failure kinds are exactly {serverError: m}, whatever it carried   *)
(* before; and when a scan has run in that state and the node is an         *)
(* interacted field of the root, the accumulator holds exactly m under the  *)
(* field's name.                                                            *)
C17_ServerErrorReplaces ==
    (serverError.shape = "object" /\ ~outcome.fault) =>
        \A i \in 1..Len(serverError.entries) :
            LET e == serverError.entries[i]
                t == tree[form]
            IN  \A k \in 1..(IF e.val.isArray THEN 1 ELSE Len(e.val.items)) :
                    LET target == AttachTarget(t, e, k)
                        m == AttachMessage(e, k)
                    IN  target # NoControl =>
                          /\ t[target].errors = Obj({ServerErr(m)})
                          /\ ( /\ lastScan.count >= 1
                               /\ Len(target) = 1 /\ t[target].kind = "control"
                               /\ (t[target].touched \/ t[target].dirty) )
                             => /\ target[1] \in DOMAIN acc[errorObject]
                                /\ acc[errorObject][target[1]] = MsgEntry(m)

(* C17 witness: {address: {email: m2}} attached m2 to the touched root      *)
(* field email, and the scan that followed recorded m2 for it.              *)
C17_Witness ==
    /\ serverError = ObjectPayload(<<Entry(<<"address">>, MapValue(<<Entry(<<"email">>, <<"m2">>)>>))>>)
    /\ ~outcome.fault
    /\ tree["A"][<<"email">>].errors = Obj({ServerErr(<<"m2">>)})
    /\ tree["A"][<<"email">>].touched
    /\ <<"address", "city">> \in DOMAIN tree["A"]
    /\ tree["A"][<<"address", "city">>].errors = Obj({Required})
    /\ lastScan = [form |-> "A", count |-> 1]
    /\ acc["accA"] = ("email" :> MsgEntry(<<"m2">>))

----------------------------------------------------------------------------
(* Properties of a handler shared by two forms (SessionSpec).               *)

(* The names of the root's children in tree t. *)
RootNames(t) == {q[1] : q \in ChildPaths(t, <<>>)}

(* C16: a scan triggered by a value change of form f writes only into the   *)
(* accumulator registered with f, and every key of an accumulator names a   *)
(* child of the form it was registered with.                                *)
C16_AccumulatorIsolation ==
    [][/\ \A f \in Forms : (call'.op = "deliver" /\ call'.form = f) =>
             \A a \in Accs \ {AccOf(f)} : acc'[a] = acc[a]
       /\ \A f \in Forms : DOMAIN acc'[AccOf(f)] \subseteq RootNames(tree'[f])
      ]_vars

(* C18: the current form becomes the form passed to handleErrors and to     *)
(* organizeServerErrors with a present payload, and no other operation      *)
(* changes it; organizeServerErrors with an absent payload changes neither  *)
(* the current form nor any tree; invalidFormHasSubmit leaves every field   *)
(* of the current form touched and every other form as it was, and with no  *)
(* current form it changes nothing.                                         *)
C18_SubmitActsOnCurrentForm ==
    [][/\ call'.op = "handleErrors" => form' = call'.form
       /\ (call'.op = "organizeServerErrors" /\ call'.present) => form' = call'.form
       /\ (call'.op = "organizeServerErrors" /\ ~call'.present)
             => (form' = form /\ tree' = tree /\ acc' = acc)
       /\ call'.op \notin {"handleErrors", "organizeServerErrors"} => form' = form
       /\ call'.op = "invalidFormHasSubmit" =>
             IF form = Undefined
             THEN UNCHANGED <<tree, acc, form, errorObject, serverError, message, sub, outcome>>
             ELSE /\ \A p \in Leaves(tree'[form]) : tree'[form][p].touched
                  /\ \A g \in Forms \ {form} : tree'[g] = tree[g]
                  /\ acc' = acc
      ]_vars

(* C18 witness: handleErrors(A, accA), then organizeServerErrors(p, B) with *)
(* p present, then invalidFormHasSubmit: the field of B is touched, the     *)
(* field of A is not.                                                       *)
C18_Witness ==
    /\ call.op = "invalidFormHasSubmit"
    /\ sub["A"].active /\ ~sub["B"].active /\ errorObject = "accA"
    /\ Truthy(serverError) /\ form = "B"
    /\ tree["B"][<<"items", "0", "qty">>].touched
    /\ tree["B"][<<>>].errors = Obj({})
    /\ ~tree["A"][<<"email">>].touched
    /\ tree["A"][<<>>].errors = Null

====
